---- MODULE Spec2Model ----
(***************************************************************************)
(* Cheque transfer reminder (sharepoint_reminder.py): one run of main().   *)
(* Text is modelled as sequences of one-character strings so that lower(), *)
(* strip(), replace(), split() and the substring test "in" are computed.   *)
(***************************************************************************)
EXTENDS Integers, Sequences, FiniteSets, TLC

VARIABLES
    pc,             \* position of the run: "main", "download", ..., "exit"
    env,            \* os.environ: name -> <<>> (unset) or <<text>>
    config,         \* main(): <<>> before it is read, <<record>> after
    missing_config, \* main(): the names reported missing
    urls_to_try,    \* download_excel_file(): candidate list
    attempt,        \* download_excel_file(): loop index i (next candidate, 1-based)
    matches,        \* extract_file_from_sharepoint_page(): extracted URLs still to try
    net,            \* every network / timing event of the run, in order
    response,       \* <<>> or <<r>>: the response of the latest GET of a candidate
                    \* or extracted URL, while the download holds it
    excel_file,     \* <<>> (None) or <<response body>>
    header_row,     \* row index read_excel used for the column labels, <<>> if none
    mapping,        \* parse_excel_data(): column_mapping as a set of <<req, found>>
    cheque_df,      \* parse_excel_data(): rows that passed the cheque filter
    df,             \* parse_excel_data() result: <<>> (None) or <<table>>
    today,          \* datetime.now().date() as a day ordinal
    reminders,      \* find_reminders_needed() result (rows)
    success,        \* <<>> until main() returns, then <<TRUE>> / <<FALSE>>
    raised,         \* TRUE when an exception left main() uncaught
    exit_code       \* <<>> until the process exits, then <<0>> or <<1>>

vars == <<pc, env, config, missing_config, urls_to_try, attempt, matches, net,
          response, excel_file, header_row, mapping, cheque_df, df, today, reminders,
          success, raised, exit_code>>

----------------------------------------------------------------------------
(* Text primitives (Python str methods used by the program). *)

UPPER == <<"A","B","C","D","E","F","G","H","I","J","K","L","M",
           "N","O","P","Q","R","S","T","U","V","W","X","Y","Z">>
LOWER == <<"a","b","c","d","e","f","g","h","i","j","k","l","m",
           "n","o","p","q","r","s","t","u","v","w","x","y","z">>
DIGITS == <<"0","1","2","3","4","5","6","7","8","9">>

LowerOf == [c \in {UPPER[i] : i \in DOMAIN UPPER} |->
                LOWER[CHOOSE i \in DOMAIN UPPER : UPPER[i] = c]]

LowerChar(c) == IF c \in DOMAIN LowerOf THEN LowerOf[c] ELSE c

\* str.lower()
lower(s) == [i \in 1..Len(s) |-> LowerChar(s[i])]

IsSpace(c) == c = " "

\* str.strip()
RECURSIVE lstrip(_)
lstrip(s) == IF s # <<>> /\ IsSpace(s[1]) THEN lstrip(Tail(s)) ELSE s

RECURSIVE rstrip(_)
rstrip(s) ==
    IF s # <<>> /\ IsSpace(s[Len(s)]) THEN rstrip(SubSeq(s, 1, Len(s) - 1)) ELSE s

strip(s) == rstrip(lstrip(s))

\* str.replace(ch, ''), for a one-character ch
remove(s, ch) == SelectSeq(s, LAMBDA c : c # ch)

\* s[i+1 .. i+Len(part)] = part
MatchesAt(s, i, part) ==
    /\ i + Len(part) <= Len(s)
    /\ \A j \in 1..Len(part) : s[i + j] = part[j]

\* needle in hay
contains(hay, needle) == \E i \in 0..(Len(hay) - Len(needle)) : MatchesAt(hay, i, needle)

\* str.startswith(prefix)
startswith(s, prefix) == MatchesAt(s, 0, prefix)

DigitOf == [c \in {DIGITS[i] : i \in DOMAIN DIGITS} |->
                (CHOOSE i \in DOMAIN DIGITS : DIGITS[i] = c) - 1]

IsDigit(c) == c \in DOMAIN DigitOf
DigitVal(c) == DigitOf[c]
AllDigits(s) == Len(s) > 0 /\ \A i \in 1..Len(s) : IsDigit(s[i])

RECURSIVE DecVal(_)
DecVal(s) ==
    IF s = <<>> THEN 0
    ELSE 10 * DecVal(SubSeq(s, 1, Len(s) - 1)) + DigitVal(s[Len(s)])

\* str.split(sep), for a one-character sep: the fields between the separators
RECURSIVE SplitFrom(_, _, _, _)
SplitFrom(s, sep, start, i) ==
    IF i > Len(s) THEN <<SubSeq(s, start, Len(s))>>
    ELSE IF s[i] = sep
         THEN <<SubSeq(s, start, i - 1)>> \o SplitFrom(s, sep, i + 1, i + 1)
         ELSE SplitFrom(s, sep, start, i + 1)

split(s, sep) == SplitFrom(s, sep, 1, 1)

----------------------------------------------------------------------------
(* Calendar: datetime.date arithmetic (date + timedelta, date == date). *)

IsLeap(y) == (y % 4 = 0 /\ y % 100 # 0) \/ y % 400 = 0

DaysInMonth(y, m) ==
    IF m = 2 THEN (IF IsLeap(y) THEN 29 ELSE 28)
    ELSE IF m \in {4, 6, 9, 11} THEN 30 ELSE 31

RECURSIVE DaysBeforeMonth(_, _)
DaysBeforeMonth(y, m) ==
    IF m <= 1 THEN 0 ELSE DaysBeforeMonth(y, m - 1) + DaysInMonth(y, m - 1)

\* date.toordinal(): days since 0001-01-01, that day being 1
Ordinal(y, m, d) ==
    LET p == y - 1
    IN  365 * p + (p \div 4) - (p \div 100) + (p \div 400)
        + DaysBeforeMonth(y, m) + d

----------------------------------------------------------------------------
(* Spreadsheet cells and the table pandas builds from them. *)

Text(s)       == [t |-> "s", s |-> s,    v |-> <<>>]
Date(y, m, d) == [t |-> "d", s |-> <<>>, v |-> <<y, m, d>>]
Num(n)        == [t |-> "n", s |-> <<>>, v |-> <<n>>]
NaN           == [t |-> "e", s |-> <<>>, v |-> <<>>]
NaT           == NaN

notna(c) == c.t # "e"
CellOrdinal(c) == Ordinal(c.v[1], c.v[2], c.v[3])

RECURSIVE DecText(_)
DecText(n) ==
    IF n < 10 THEN <<DIGITS[n + 1]>>
    ELSE DecText(n \div 10) \o <<DIGITS[(n % 10) + 1]>>

RECURSIVE ZeroPad(_, _)
ZeroPad(s, w) == IF Len(s) >= w THEN s ELSE ZeroPad(<<"0">> \o s, w)

\* str(value) of a cell, as Series.astype(str) and str(df_col) produce it
astype_str(c) ==
    CASE c.t = "s" -> c.s
      [] c.t = "n" -> DecText(c.v[1])
      [] c.t = "d" -> ZeroPad(DecText(c.v[1]), 4) \o <<"-">>
                      \o ZeroPad(DecText(c.v[2]), 2) \o <<"-">>
                      \o ZeroPad(DecText(c.v[3]), 2)
                      \o <<" ","0","0",":","0","0",":","0","0">>
      [] OTHER     -> <<"n","a","n">>

Unnamed == <<"U","n","n","a","m","e","d",":"," ">>

\* pd.read_excel(excel_file, engine=engine): no header argument, so the first
\* row of the sheet supplies the column labels and the rest are the data rows.
HeaderRowUsed(grid) == 0

read_excel(grid) ==
    LET h == HeaderRowUsed(grid) + 1
    IN  [columns |-> [j \in 1..Len(grid[h]) |->
                        IF notna(grid[h][j]) THEN astype_str(grid[h][j])
                        ELSE Unnamed \o DecText(j - 1)],
         rows    |-> SubSeq(grid, h + 1, Len(grid))]

EmptyDataFrame == [columns |-> <<>>, rows |-> <<>>]
empty(frame) == frame.rows = <<>> \/ frame.columns = <<>>

----------------------------------------------------------------------------
(* parse_excel_data: column resolution. *)

ModeOfPayment  == <<"M","o","d","e"," ","o","f"," ","P","a","y","m","e","n","t">>
DateOfTransfer == <<"D","a","t","e"," ","o","f"," ","T","r","a","n","s","f","e","r">>

required_columns == <<ModeOfPayment, DateOfTransfer>>

\* str(df_col).lower().strip() == req_col.lower().strip()
ExactMatch(df_col, req_col) == strip(lower(df_col)) = strip(lower(req_col))

\* .lower().replace(' ', '').replace('_', '').replace('-', '')
clean(s) == remove(remove(remove(lower(s), " "), "_"), "-")

\* req_clean in col_clean or col_clean in req_clean
PartialMatch(df_col, req_col) ==
    \/ contains(clean(df_col), clean(req_col))
    \/ contains(clean(req_col), clean(df_col))

\* the first loop over df.columns: the first label equal to the required
\* name after lower() and strip(), <<>> or <<label>>
RECURSIVE FirstExactColumn(_, _, _)
FirstExactColumn(columns, req_col, i) ==
    IF i > Len(columns) THEN <<>>
    ELSE IF ExactMatch(columns[i], req_col) THEN <<columns[i]>>
    ELSE FirstExactColumn(columns, req_col, i + 1)

\* the second loop over df.columns: the first label that matches partially
RECURSIVE FirstPartialColumn(_, _, _)
FirstPartialColumn(columns, req_col, i) ==
    IF i > Len(columns) THEN <<>>
    ELSE IF PartialMatch(columns[i], req_col) THEN <<columns[i]>>
    ELSE FirstPartialColumn(columns, req_col, i + 1)

\* mutant: the exact pass is skipped
found_col_partial_only(columns, req_col) == FirstPartialColumn(columns, req_col, 1)

\* found_col for one required column: exact match first, then partial match
found_col(columns, req_col) ==
    LET exact == FirstExactColumn(columns, req_col, 1)
    IN  IF exact # <<>> THEN exact
        ELSE FirstPartialColumn(columns, req_col, 1)

\* "if found_col:" -- None and the empty label are both falsy
Truthy(found) == found # <<>> /\ found[1] # <<>>

\* the loop over required_columns: <<>> when it returns None at the first
\* required column without a column, else <<column_mapping>>
column_mapping(columns) ==
    LET found == [k \in 1..Len(required_columns) |->
                    found_col(columns, required_columns[k])]
    IN  IF \E k \in 1..Len(required_columns) : ~Truthy(found[k])
        THEN <<>>
        ELSE <<[k \in 1..Len(required_columns) |-> found[k][1]]>>

\* df.rename(columns=column_mapping): the mapping's keys are the required
\* names and its values the labels found, and rename relabels key -> value
rename(columns, cm) ==
    [i \in 1..Len(columns) |->
        IF \E k \in 1..Len(required_columns) : required_columns[k] = columns[i]
        THEN cm[CHOOSE k \in 1..Len(required_columns) :
                    required_columns[k] = columns[i]]
        ELSE columns[i]]

\* df[label]: the positions of the columns so labelled (none: KeyError)
ColumnsNamed(columns, label) == {i \in 1..Len(columns) : columns[i] = label}

----------------------------------------------------------------------------
(* parse_excel_data: cheque filter and date conversion. *)

Cheque == <<"c","h","e","q","u","e">>
Check  == <<"c","h","e","c","k">>

\* mutant: the test without .str.lower()
IsChequeModeCaseSensitive(cell) ==
    \/ contains(astype_str(cell), Cheque)
    \/ contains(astype_str(cell), Check)

\* .str.lower().str.contains('cheque|check', na=False) on the astype(str) column
IsChequeMode(cell) ==
    \/ contains(lower(astype_str(cell)), Cheque)
    \/ contains(lower(astype_str(cell)), Check)

MONTHS == << <<"j","a","n">>, <<"f","e","b">>, <<"m","a","r">>, <<"a","p","r">>,
             <<"m","a","y">>, <<"j","u","n">>, <<"j","u","l">>, <<"a","u","g">>,
             <<"s","e","p">>, <<"o","c","t">>, <<"n","o","v">>, <<"d","e","c">> >>

\* date_formats, each as its separator and its three directives in order
date_formats ==
    << [sep |-> "-", dir |-> <<"d", "b", "y">>],     \* %d-%b-%y
       [sep |-> "-", dir |-> <<"d", "b", "Y">>],     \* %d-%b-%Y
       [sep |-> "/", dir |-> <<"d", "m", "y">>],     \* %d/%m/%y
       [sep |-> "/", dir |-> <<"d", "m", "Y">>],     \* %d/%m/%Y
       [sep |-> "-", dir |-> <<"Y", "m", "d">>],     \* %Y-%m-%d
       [sep |-> "/", dir |-> <<"m", "d", "Y">>],     \* %m/%d/%Y
       [sep |-> ".", dir |-> <<"d", "m", "Y">>],     \* %d.%m.%Y
       [sep |-> "/", dir |-> <<"Y", "m", "d">>] >>   \* %Y/%m/%d

\* one strptime directive against one field: <<>> or <<value>>
Directive(dir, field) ==
    CASE dir = "d" ->
            IF AllDigits(field) /\ Len(field) <= 2 /\ DecVal(field) \in 1..31
            THEN <<DecVal(field)>> ELSE <<>>
      [] dir = "m" ->
            IF AllDigits(field) /\ Len(field) <= 2 /\ DecVal(field) \in 1..12
            THEN <<DecVal(field)>> ELSE <<>>
      [] dir = "b" ->
            IF \E k \in DOMAIN MONTHS : MONTHS[k] = lower(field)
            THEN <<CHOOSE k \in DOMAIN MONTHS : MONTHS[k] = lower(field)>>
            ELSE <<>>
      [] dir = "y" ->
            IF AllDigits(field) /\ Len(field) = 2
            THEN <<IF DecVal(field) <= 68 THEN 2000 + DecVal(field)
                                          ELSE 1900 + DecVal(field)>>
            ELSE <<>>
      [] OTHER ->
            IF AllDigits(field) /\ Len(field) = 4
            THEN <<DecVal(field)>> ELSE <<>>

\* the field of a parsed text that one directive letter produced
FieldOf(fmt, vals, letters) ==
    vals[CHOOSE k \in 1..3 : fmt.dir[k] \in letters][1]

\* strptime(text, format) with an exact match of the whole text: a cell
strptime(s, fmt) ==
    LET f    == split(s, fmt.sep)
        vals == [k \in 1..3 |-> Directive(fmt.dir[k], f[k])]
    IN  IF Len(f) # 3 THEN NaT
        ELSE IF \E k \in 1..3 : vals[k] = <<>> THEN NaT
        ELSE LET y == FieldOf(fmt, vals, {"y", "Y"})
                 m == FieldOf(fmt, vals, {"m", "b"})
                 d == FieldOf(fmt, vals, {"d"})
             IN  IF d <= DaysInMonth(y, m) THEN Date(y, m, d) ELSE NaT

\* mutant: errors='ignore', text that does not parse is left as it is
to_datetime_ignore(cell, fmt) ==
    CASE cell.t = "d" -> cell
      [] cell.t = "s" -> IF strptime(cell.s, fmt) = NaT THEN cell
                         ELSE strptime(cell.s, fmt)
      [] OTHER        -> NaT

\* pd.to_datetime(value, format=fmt, errors='coerce') for one value: a value
\* that is a datetime already is kept, a null stays null, text goes through
\* strptime, anything else is coerced to NaT
to_datetime(cell, fmt) ==
    CASE cell.t = "d" -> cell
      [] cell.t = "s" -> strptime(cell.s, fmt)
      [] OTHER        -> NaT

\* the same over a column
to_datetime_column(col, fmt) == [i \in 1..Len(col) |-> to_datetime(col[i], fmt)]

\* notna().sum()
valid_dates(col) == Cardinality({i \in 1..Len(col) : notna(col[i])})

\* pd.to_datetime(column, errors='coerce') without a format, reached only
\* after the loop below has replaced the column by its conversion
to_datetime_auto(col) ==
    [i \in 1..Len(col) |-> IF col[i].t = "d" THEN col[i] ELSE NaT]

\* for date_format in date_formats: the column is REPLACED by its conversion
\* in every iteration, so iteration k+1 converts the result of iteration k
RECURSIVE ConvertDates(_, _)
ConvertDates(col, k) ==
    IF k > Len(date_formats) THEN to_datetime_auto(col)
    ELSE LET converted == to_datetime_column(col, date_formats[k])
         IN  IF valid_dates(converted) > 0 THEN converted
             ELSE ConvertDates(converted, k + 1)

----------------------------------------------------------------------------
(* parse_excel_data and find_reminders_needed as functions of their inputs. *)

Only(S) == CHOOSE x \in S : TRUE

\* mutant: the payment-mode cell is converted but no row is filtered out
ChequeRowsUnfiltered(rows, mi) ==
    [i \in 1..Len(rows) |-> [rows[i] EXCEPT ![mi] = Text(astype_str(rows[i][mi]))]]

\* the rows kept by the cheque filter, the payment-mode cell converted to text
ChequeRows(rows, mi) ==
    SelectSeq([i \in 1..Len(rows) |->
                  [rows[i] EXCEPT ![mi] = Text(astype_str(rows[i][mi]))]],
              LAMBDA r : IsChequeMode(r[mi]))

\* the cheque rows with the transfer-date column converted, nulls dropped
DatedRows(rows, di) ==
    LET col == ConvertDates([i \in 1..Len(rows) |-> rows[i][di]], 1)
    IN  SelectSeq([i \in 1..Len(rows) |-> [rows[i] EXCEPT ![di] = col[i]]],
                  LAMBDA r : notna(r[di]))

\* Everything parse_excel_data computes from a workbook:
\*   cm      column_mapping, <<>> when a required column was not found
\*   cheque  the rows after the cheque filter (<<>> when not reached)
\*   result  <<>> for None, else <<frame>>
\* A body that is no workbook fails with both engines; a KeyError on a
\* canonical label after the rename is caught by the outer except: None.
parse_excel_data(body) ==
    IF ~body.workbook THEN [cm |-> <<>>, cheque |-> <<>>, result |-> <<>>]
    ELSE
    LET frame == read_excel(body.grid)
        cm    == column_mapping(frame.columns)
    IN  IF cm = <<>> THEN [cm |-> <<>>, cheque |-> <<>>, result |-> <<>>]
        ELSE
        LET cols == rename(frame.columns, cm[1])
            ms   == ColumnsNamed(cols, ModeOfPayment)
            ds   == ColumnsNamed(cols, DateOfTransfer)
        IN  IF Cardinality(ms) # 1
            THEN [cm |-> cm, cheque |-> <<>>, result |-> <<>>]
            ELSE
            LET cheque == ChequeRows(frame.rows, Only(ms))
            IN  IF cheque = <<>>
                THEN [cm |-> cm, cheque |-> <<>>, result |-> <<EmptyDataFrame>>]
                ELSE IF Cardinality(ds) # 1
                THEN [cm |-> cm, cheque |-> cheque, result |-> <<>>]
                ELSE [cm |-> cm, cheque |-> cheque,
                      result |-> <<[columns |-> cols,
                                    rows |-> DatedRows(cheque, Only(ds))]>>]

REMINDER_DAYS == 3

\* df['Date of Transfer']: the position of the transfer-date column
DateColumn(frame) == Only(ColumnsNamed(frame.columns, DateOfTransfer))

\* mutants: a window of days instead of one day
find_reminders_within(frame, now) ==
    IF frame = <<>> \/ empty(frame[1]) THEN <<>>
    ELSE SelectSeq(frame[1].rows,
                   LAMBDA r : /\ notna(r[DateColumn(frame[1])])
                              /\ CellOrdinal(r[DateColumn(frame[1])]) >= now
                              /\ CellOrdinal(r[DateColumn(frame[1])]) <= now + REMINDER_DAYS)
find_reminders_from(frame, now) ==
    IF frame = <<>> \/ empty(frame[1]) THEN <<>>
    ELSE SelectSeq(frame[1].rows,
                   LAMBDA r : /\ notna(r[DateColumn(frame[1])])
                              /\ CellOrdinal(r[DateColumn(frame[1])]) >= now + REMINDER_DAYS)

\* find_reminders_needed(df) for today's ordinal: an empty result for None or
\* an empty frame, else the rows with
\* df['Date of Transfer'].dt.date == today + timedelta(days=3)
find_reminders_needed(frame, now) ==
    IF frame = <<>> \/ empty(frame[1]) THEN <<>>
    ELSE SelectSeq(frame[1].rows,
                   LAMBDA r : /\ notna(r[DateColumn(frame[1])])
                              /\ CellOrdinal(r[DateColumn(frame[1])]) = now + REMINDER_DAYS)

----------------------------------------------------------------------------
(* URL Resolver: convert_sharepoint_url_to_direct_download and the candidate
   list of download_excel_file. *)

SharepointCom  == <<"s","h","a","r","e","p","o","i","n","t",".","c","o","m">>
ViewMarker     == <<"/",":","x",":","/">>
BinaryMarker   == <<"/",":","b",":","/">>
DownloadParam  == <<"d","o","w","n","l","o","a","d","=","1">>
DocAspx        == <<"_","l","a","y","o","u","t","s","/","1","5","/","D","o","c",".","a","s","p","x">>
Personal       == <<"p","e","r","s","o","n","a","l">>
DownloadAspx   == <<"/","_","l","a","y","o","u","t","s","/","1","5","/","d","o","w","n","l","o","a","d",".","a","s","p","x","?","S","o","u","r","c","e","U","r","l","=">>
QDownload      == <<"?","d","o","w","n","l","o","a","d","=","1">>
AmpDownload    == <<"&","d","o","w","n","l","o","a","d","=","1">>

\* str.replace(old, new)
RECURSIVE replace(_, _, _)
replace(s, old, new) ==
    IF Len(s) < Len(old) THEN s
    ELSE IF startswith(s, old)
         THEN new \o replace(SubSeq(s, Len(old) + 1, Len(s)), old, new)
         ELSE <<s[1]>> \o replace(Tail(s), old, new)

\* sep.join(parts)
RECURSIVE join(_, _)
join(parts, sep) ==
    IF parts = <<>> THEN <<>>
    ELSE IF Len(parts) = 1 THEN parts[1]
    ELSE parts[1] \o <<sep>> \o join(Tail(parts), sep)

\* urllib.parse.quote(s): letters, digits, "_.-~" and "/" are kept, every
\* other character of the URLs used here is percent-encoded
QuoteChar(c) ==
    CASE c = ":" -> <<"%","3","A">>
      [] c = "?" -> <<"%","3","F">>
      [] c = "=" -> <<"%","3","D">>
      [] c = "&" -> <<"%","2","6">>
      [] c = " " -> <<"%","2","0">>
      [] OTHER   -> <<c>>

RECURSIVE quote(_)
quote(s) == IF s = <<>> THEN <<>> ELSE QuoteChar(s[1]) \o quote(Tail(s))

\* separator = "&" if "?" in url else "?"; appended unless download=1 is there
AddDownloadParam(url) ==
    IF contains(url, DownloadParam) THEN url
    ELSE url \o (IF contains(url, <<"?">>) THEN <<"&">> ELSE <<"?">>)
             \o DownloadParam

convert_sharepoint_url_to_direct_download(shared_url) ==
    IF /\ contains(shared_url, SharepointCom)
       /\ (contains(shared_url, ViewMarker) \/ contains(shared_url, BinaryMarker))
    THEN AddDownloadParam(replace(shared_url, ViewMarker, BinaryMarker))
    ELSE IF contains(shared_url, DocAspx)
    THEN AddDownloadParam(shared_url)
    ELSE IF contains(shared_url, SharepointCom)
            /\ \E i \in 1..Len(split(shared_url, "/")) :
                    split(shared_url, "/")[i] = Personal
    THEN LET parts == split(shared_url, "/")
             i     == CHOOSE k \in 1..Len(parts) :
                        parts[k] = Personal /\ \A j \in 1..(k-1) : parts[j] # Personal
             n     == IF i + 1 <= Len(parts) THEN i + 1 ELSE Len(parts)
         IN  join(SubSeq(parts, 1, n), "/") \o DownloadAspx \o quote(shared_url)
    ELSE shared_url

\* mutant: duplicates are not removed
dedupe_nothing(urls) == urls

\* list(dict.fromkeys(urls)): first occurrences, in order
RECURSIVE dedupe(_)
dedupe(urls) ==
    IF urls = <<>> THEN <<>>
    ELSE LET front == dedupe(SubSeq(urls, 1, Len(urls) - 1))
             last  == urls[Len(urls)]
         IN  IF \E i \in 1..Len(front) : front[i] = last
             THEN front ELSE Append(front, last)

\* urls_to_try of download_excel_file
candidate_urls(shared_url) ==
    LET base_url == IF contains(shared_url, <<"?">>)
                    THEN split(shared_url, "?")[1] ELSE shared_url
    IN  dedupe(<< shared_url,
                  convert_sharepoint_url_to_direct_download(shared_url),
                  base_url \o QDownload,
                  IF contains(shared_url, <<"?">>)
                  THEN shared_url \o AmpDownload
                  ELSE shared_url \o QDownload >>)

----------------------------------------------------------------------------
(* Spreadsheet Fetcher: the acceptance tests of download_excel_file and of
   extract_file_from_sharepoint_page.  A response is
     [raised, status, ctype, content], content = [head, len, workbook, grid]:
   head is the leading bytes, len the byte count, workbook whether the bytes
   are a workbook an engine can read, grid its sheet. *)

TextHtml       == <<"t","e","x","t","/","h","t","m","l">>
Excel          == <<"e","x","c","e","l">>
Spreadsheet    == <<"s","p","r","e","a","d","s","h","e","e","t">>
VndOpenXml     == <<"v","n","d",".","o","p","e","n","x","m","l","f","o","r","m","a","t","s">>
OctetStream    == <<"a","p","p","l","i","c","a","t","i","o","n","/","o","c","t","e","t","-","s","t","r","e","a","m">>
Doctype        == <<"<","!","D","O","C","T","Y","P","E">>
HtmlTag        == <<"<","h","t","m","l">>
PKSignature    == <<"P","K">>
OleSignature   == <<"\\xd0","\\xcf","\\x11","\\xe0">>

MIN_CONTENT_LENGTH == 1000
HTTP_OK == 200

\* 'text/html' in content_type or content.startswith(b'<!DOCTYPE')
\*   or content.startswith(b'<html')
IsHtmlResponse(r) ==
    \/ contains(lower(r.ctype), TextHtml)
    \/ startswith(r.content.head, Doctype)
    \/ startswith(r.content.head, HtmlTag)

\* mutant: a body of exactly the threshold length passes
LooksLikeExcelAtThreshold(r) ==
    /\ r.content.len >= MIN_CONTENT_LENGTH
    /\ \/ contains(lower(r.ctype), Excel)
       \/ contains(lower(r.ctype), Spreadsheet)
       \/ contains(lower(r.ctype), VndOpenXml)
       \/ contains(lower(r.ctype), OctetStream)
       \/ startswith(r.content.head, PKSignature)
       \/ startswith(r.content.head, OleSignature)

\* the "looks like an Excel file" test of download_excel_file
LooksLikeExcel(r) ==
    /\ r.content.len > MIN_CONTENT_LENGTH
    /\ \/ contains(lower(r.ctype), Excel)
       \/ contains(lower(r.ctype), Spreadsheet)
       \/ contains(lower(r.ctype), VndOpenXml)
       \/ contains(lower(r.ctype), OctetStream)
       \/ startswith(r.content.head, PKSignature)
       \/ startswith(r.content.head, OleSignature)

\* a direct candidate's response is returned as the file
AcceptDirect(r) ==
    /\ ~r.raised
    /\ r.status = HTTP_OK
    /\ ~IsHtmlResponse(r)
    /\ LooksLikeExcel(r)

\* a direct candidate's failed attempt reaches time.sleep(1): not after the
\* "continue" of the HTML branch nor after that of the exception handler
SleepsAfter(r) == ~r.raised /\ ~(r.status = HTTP_OK /\ IsHtmlResponse(r))

\* mutant: any 200 response is taken as the file
AcceptExtractedAnyOk(r) == ~r.raised /\ r.status = HTTP_OK

\* an extracted URL's response is returned as the file
AcceptExtracted(r) ==
    /\ ~r.raised
    /\ r.status = HTTP_OK
    /\ r.content.len > MIN_CONTENT_LENGTH
    /\ ~(contains(lower(r.ctype), TextHtml) \/ startswith(r.content.head, Doctype))

----------------------------------------------------------------------------
(* extract_file_from_sharepoint_page: the scan of the page text.  The page is
   a sequence of fragments [kind, url]; kind names the markup around the URL
   and decides which of the six download_patterns find it:
     "json"   "downloadUrl":"URL"                    patterns 1, 4, 5
     "graph"  "@microsoft.graph.downloadUrl":"URL"   patterns 2, 5
     "data"   data-downloadurl="URL"                 pattern 3
     "href"   href="URL"                             pattern 6 when URL has
                                                     "download" in it        *)

DownloadWord == <<"d","o","w","n","l","o","a","d">>
EscapedAmp   == <<"\\","u","0","0","2","6">>
EscapedSlash == <<"\\","/">>

NumPatterns == 6

PatternFinds(p, frag) ==
    CASE frag.kind = "json"  -> p \in {1, 4, 5}
      [] frag.kind = "graph" -> p \in {2, 5}
      [] frag.kind = "data"  -> p = 3
      [] OTHER               -> p = 6 /\ contains(lower(frag.url), DownloadWord)

\* match.replace('\\u0026', '&').replace('\\/', '/')
unescape(match) == replace(replace(match, EscapedAmp, <<"&">>), EscapedSlash, <<"/">>)

\* re.findall(pattern, content): the matches of one pattern, in page order
RECURSIVE findall(_, _)
findall(p, page) ==
    IF page = <<>> THEN <<>>
    ELSE (IF PatternFinds(p, page[1]) THEN <<page[1].url>> ELSE <<>>)
         \o findall(p, Tail(page))

\* the URLs the nested loops request, in order: patterns in list order, the
\* matches of each in page order, unescaped, those without 'sharepoint.com'
\* skipped
RECURSIVE ExtractedFrom(_, _)
ExtractedFrom(page, p) ==
    IF p > NumPatterns THEN <<>>
    ELSE SelectSeq([i \in 1..Len(findall(p, page)) |-> unescape(findall(p, page)[i])],
                   LAMBDA u : contains(u, SharepointCom))
         \o ExtractedFrom(page, p + 1)

extracted_urls(page) == ExtractedFrom(page, 1)

----------------------------------------------------------------------------
(* Inputs of a run: the environment, the responses of the network, the sheet
   of the workbook, the clock. *)

MaxRows == 2        \* data rows of a generated sheet
MaxFragments == 1   \* download-link fragments in the scraped page

UrlView     == <<"h","t","t","p","s",":","/","/","c",".","s","h","a","r","e","p","o","i","n","t",".","c","o","m","/",":","x",":","/","g","/","p","e","r","s","o","n","a","l","/","u","/","E","1","?","e","=","a">>
UrlViewBare == <<"h","t","t","p","s",":","/","/","c",".","s","h","a","r","e","p","o","i","n","t",".","c","o","m","/",":","x",":","/","g","/","E","1">>
UrlDoc      == <<"h","t","t","p","s",":","/","/","c",".","s","h","a","r","e","p","o","i","n","t",".","c","o","m","/","_","l","a","y","o","u","t","s","/","1","5","/","D","o","c",".","a","s","p","x","?","s","o","u","r","c","e","d","o","c","=","1">>
UrlPersonal == <<"h","t","t","p","s",":","/","/","c",".","s","h","a","r","e","p","o","i","n","t",".","c","o","m","/","p","e","r","s","o","n","a","l","/","u","/","f",".","x","l","s","x">>
UrlOther    == <<"h","t","t","p","s",":","/","/","f","i","l","e","s",".","e","x","a","m","p","l","e",".","c","o","m","/","f",".","x","l","s","x">>
UrlViewElsewhere == <<"h","t","t","p","s",":","/","/","f","i","l","e","s",".","e","x","a","m","p","l","e",".","c","o","m","/",":","x",":","/","g","/","E","1">>
UrlViewDownload  == <<"h","t","t","p","s",":","/","/","c",".","s","h","a","r","e","p","o","i","n","t",".","c","o","m","/",":","x",":","/","g","/","E","1","?","d","o","w","n","l","o","a","d","=","1">>
SharedUrls  == {UrlView, UrlViewBare, UrlDoc, UrlPersonal, UrlOther,
                UrlViewElsewhere, UrlViewDownload}

SomeText == <<"x">>
PortTexts == {<<"2","5","2","5">>, <<>>, <<"s","m","t","p">>}

Unset == <<>>
Settings(texts) == {Unset, <<<<>>>>} \cup {<<t>> : t \in texts}

\* os.environ
Envs ==
    { [SHAREPOINT_SHARED_URL |-> u, SMTP_SERVER |-> s, SMTP_PORT |-> p,
       EMAIL_USERNAME |-> n, EMAIL_PASSWORD |-> w, RECIPIENT_EMAIL |-> r] :
        u \in Settings(SharedUrls), s \in Settings({SomeText}),
        p \in {Unset} \cup {<<t>> : t \in PortTexts},
        n \in Settings({SomeText}), w \in Settings({SomeText}),
        r \in Settings({SomeText}) }

T(s) == Text(s)
Amount == <<"A","m","o","u","n","t">>

CanonicalHeader == <<T(ModeOfPayment), T(DateOfTransfer), T(Amount)>>

ModeCells == {T(<<"C","h","e","q","u","e">>), T(<<"C","H","E","Q","U","E">>), T(<<"B","a","n","k"," ","C","h","e","q","u","e">>), T(<<"c","h","e","c","k">>), T(<<"W","i","r","e"," ","T","r","a","n","s","f","e","r">>), NaN}
DateTexts == {T(<<"0","4","-","J","a","n","-","2","4">>), T(<<"0","5","-","J","a","n","-","2","4">>), T(<<"2","0","2","4","-","0","1","-","0","4">>), T(<<"0","4","/","0","1","/","2","0","2","4">>), T(<<"n","/","a">>), NaN}
DateNative == {Date(2024, 1, 4), Date(2024, 1, 5), NaN}

\* data rows under the canonical header: every payment mode with one date,
\* every date with one payment mode; text dates or native dates
TextRows   == {<<m, T(<<"0","4","-","J","a","n","-","2","4">>), Num(100)>> : m \in ModeCells}
              \cup {<<T(<<"C","h","e","q","u","e">>), d, Num(100)>> : d \in DateTexts}
NativeRows == {<<m, d, Num(100)>> : m \in {T(<<"C","h","e","q","u","e">>), T(<<"W","i","r","e"," ","T","r","a","n","s","f","e","r">>)}, d \in DateNative}

SeqsUpTo(S, n) == UNION {[1..k -> S] : k \in 0..n}

\* header rows whose labels differ from the canonical ones
HeaderRows ==
    { CanonicalHeader,
      <<T(DateOfTransfer), T(Amount), T(ModeOfPayment)>>,
      <<T(<<"m","o","d","e"," ","o","f"," ","p","a","y","m","e","n","t">>), T(DateOfTransfer), T(Amount)>>,
      <<T(<<"P","a","y","m","e","n","t">>), T(ModeOfPayment), T(DateOfTransfer)>>,
      <<T(<<"P","a","y","m","e","n","t"," ","M","o","d","e">>), T(<<"T","r","a","n","s","f","e","r"," ","D","a","t","e">>), T(Amount)>>,
      <<T(<<"P","a","y"," ","M","e","t","h","o","d">>), T(<<"D","u","e"," ","D","a","t","e">>), T(Amount)>>,
      <<T(<<"o","f">>), T(ModeOfPayment), T(DateOfTransfer)>>,
      <<T(<<"M","o","d","e","_","o","f","_","P","a","y","m","e","n","t">>), T(<<"P","a","y","m","e","n","t"," ","o","f"," ","M","o","d","e">>), T(DateOfTransfer)>>,
      <<T(ModeOfPayment), T(<<"D","a","t","e","-","o","f","-","T","r","a","n","s","f","e","r"," ","(","p","l","a","n","n","e","d",")">>), T(Amount)>>,
      <<T(<<" ","M","o","d","e"," ","O","f"," ","P","a","y","m","e","n","t"," ">>), T(DateOfTransfer), NaN>>,
      <<T(Amount), T(<<"P","a","y","m","e","n","t"," ","o","f"," ","M","o","d","e">>), T(<<"T","r","a","n","s","f","e","r">>)>>,
      <<T(<<"m","o","d","e"," ","o","f"," ","p","a","y","m","e","n","t">>), T(ModeOfPayment), T(DateOfTransfer)>>,
      <<T(<<"P","a","y","m","e","n","t"," ","M","o","d","e"," ","o","f"," ","P","a","y","m","e","n","t"," ","T","y","p","e">>), T(DateOfTransfer), T(Amount)>>,
      <<T(<<"o","f">>), T(Amount), T(<<"R","e","f">>)>> }

\* rows above the header row of a sheet (a title, reference columns)
TitleRows == { <<T(<<"R","e","f">>), T(<<"X">>), T(<<"Y">>)>>, <<T(<<"P","a","y","m","e","n","t","s"," ","2","0","2","4">>), NaN, NaN>> }

SampleRows == << <<T(<<"C","h","e","q","u","e">>), T(<<"0","4","-","J","a","n","-","2","4">>), Num(100)>>, <<T(<<"W","i","r","e"," ","T","r","a","n","s","f","e","r">>), T(<<"0","4","-","J","a","n","-","2","4">>), Num(50)>> >>
ExampleRow == <<Num(1), T(<<"C","h","e","q","u","e">>), T(<<"0","1","-","J","a","n","-","2","5">>)>>

\* the sheets of the parse specification
ParseGrids ==
    {<<CanonicalHeader>> \o rows : rows \in SeqsUpTo(TextRows, MaxRows)}
    \cup {<<CanonicalHeader>> \o rows : rows \in SeqsUpTo(NativeRows, MaxRows)}
    \cup {<<h>> \o SampleRows : h \in HeaderRows}
    \cup {<<t, h>> \o SampleRows : t \in TitleRows, h \in HeaderRows}
    \cup {<<t, <<T(ModeOfPayment), T(DateOfTransfer), T(Amount)>>, ExampleRow>> :
            t \in TitleRows}

\* the sheets served in the run specification
RunGrids ==
    { <<CanonicalHeader>> \o SampleRows,
      <<CanonicalHeader, <<T(<<"C","H","E","Q","U","E">>), T(<<"0","5","-","J","a","n","-","2","4">>), Num(100)>> >>,
      <<CanonicalHeader, <<T(<<"W","i","r","e"," ","T","r","a","n","s","f","e","r">>), T(<<"0","4","-","J","a","n","-","2","4">>), Num(100)>> >>,
      <<CanonicalHeader, <<T(<<"C","h","e","q","u","e">>), T(<<"2","0","2","4","-","0","1","-","0","4">>), Num(100)>> >>,
      <<CanonicalHeader, <<T(<<"C","h","e","q","u","e">>), Date(2024, 1, 4), Num(100)>>,
                         <<T(<<"B","a","n","k"," ","C","h","e","q","u","e">>), Date(2024, 1, 5), Num(100)>> >>,
      <<<<T(<<"m","o","d","e"," ","o","f"," ","p","a","y","m","e","n","t">>), T(DateOfTransfer), T(Amount)>>>> \o SampleRows,
      <<<<T(<<"R","e","f">>), T(<<"X">>), T(<<"Y">>)>>, CanonicalHeader, ExampleRow>> }

\* response bodies: pages and other non-workbook bytes of both lengths around
\* the threshold, every served sheet as a ZIP workbook above the threshold,
\* one as an OLE workbook, one as a workbook at the threshold
NonWorkbooks ==
    { [head |-> h, len |-> n, workbook |-> FALSE, grid |-> <<>>] :
        h \in {Doctype, HtmlTag, PKSignature, <<"o","o","p","s">>},
        n \in {MIN_CONTENT_LENGTH, MIN_CONTENT_LENGTH + 1} }

Workbook(head, len, g) == [head |-> head, len |-> len, workbook |-> TRUE, grid |-> g]

Contents ==
    NonWorkbooks
    \cup { Workbook(PKSignature, MIN_CONTENT_LENGTH + 1, g) : g \in RunGrids }
    \cup { Workbook(OleSignature, MIN_CONTENT_LENGTH + 1, <<CanonicalHeader>> \o SampleRows),
           Workbook(PKSignature, MIN_CONTENT_LENGTH, <<CanonicalHeader>> \o SampleRows) }

ContentTypes == {<<>>, <<"t","e","x","t","/","h","t","m","l",";"," ","c","h","a","r","s","e","t","=","u","t","f","-","8">>, <<"a","p","p","l","i","c","a","t","i","o","n","/","v","n","d",".","m","s","-","e","x","c","e","l">>, <<"a","p","p","l","i","c","a","t","i","o","n","/","o","c","t","e","t","-","s","t","r","e","a","m">>, <<"T","e","x","t","/","P","l","a","i","n">>}

NoContent == [head |-> <<>>, len |-> 0, workbook |-> FALSE, grid |-> <<>>]
RequestException ==
    [raised |-> TRUE, status |-> 0, ctype |-> <<>>, content |-> NoContent]

NotFound == 404

\* what session.get(...) can produce
Responses ==
    {RequestException}
    \cup { [raised |-> FALSE, status |-> HTTP_OK, ctype |-> ct, content |-> c] :
             ct \in ContentTypes, c \in Contents }
    \cup { [raised |-> FALSE, status |-> NotFound, ctype |-> ct, content |-> c] :
             ct \in {<<>>, <<"a","p","p","l","i","c","a","t","i","o","n","/","v","n","d",".","m","s","-","e","x","c","e","l">>},
             c \in {Workbook(PKSignature, MIN_CONTENT_LENGTH + 1,
                             <<CanonicalHeader>> \o SampleRows),
                    [head |-> Doctype, len |-> MIN_CONTENT_LENGTH + 1,
                     workbook |-> FALSE, grid |-> <<>>]} }

RawSharepoint == <<"h","t","t","p","s",":","\\","/","\\","/","c",".","s","h","a","r","e","p","o","i","n","t",".","c","o","m","\\","/","d","o","w","n","l","o","a","d","?","a","=","1","\\","u","0","0","2","6","b","=","2">>
RawElsewhere  == <<"h","t","t","p","s",":","/","/","c","d","n",".","e","x","a","m","p","l","e",".","c","o","m","/","d","o","w","n","l","o","a","d">>
Fragments ==
    { [kind |-> k, url |-> RawSharepoint] : k \in {"json", "graph", "data", "href"} }
    \cup { [kind |-> "json", url |-> RawElsewhere] }
Pages == SeqsUpTo(Fragments, MaxFragments)

\* datetime.now().date()
Todays == {Ordinal(2024, 1, 1), Ordinal(2024, 1, 2)}

----------------------------------------------------------------------------
(* The run. *)

DEFAULT_SMTP_PORT == 587

Event(ev, url, ok) == [ev |-> ev, url |-> url, ok |-> ok]

\* int(text): the value, or ValueError for text that is no number
IsIntText(t) == AllDigits(strip(t))
IntOf(t) == DecVal(strip(t))

\* value is None or value == ''
IsMissing(value) == value = <<>> \/ value = <<<<>>>>

\* [key for key, value in config.items() if value is None or value == '']
MissingKeys(e) ==
    (IF IsMissing(e.SHAREPOINT_SHARED_URL) THEN <<"sharepoint_shared_url">> ELSE <<>>)
    \o (IF IsMissing(e.SMTP_SERVER) THEN <<"smtp_server">> ELSE <<>>)
    \o (IF IsMissing(e.EMAIL_USERNAME) THEN <<"email_username">> ELSE <<>>)
    \o (IF IsMissing(e.EMAIL_PASSWORD) THEN <<"email_password">> ELSE <<>>)
    \o (IF IsMissing(e.RECIPIENT_EMAIL) THEN <<"recipient_email">> ELSE <<>>)

\* the config dictionary of main(); smtp_port is an int, never None or ''
ConfigOf(e) ==
    [sharepoint_shared_url |-> e.SHAREPOINT_SHARED_URL,
     smtp_server           |-> e.SMTP_SERVER,
     smtp_port             |-> IF e.SMTP_PORT = Unset THEN DEFAULT_SMTP_PORT
                               ELSE IntOf(e.SMTP_PORT[1]),
     email_username        |-> e.EMAIL_USERNAME,
     email_password        |-> e.EMAIL_PASSWORD,
     recipient_email       |-> e.RECIPIENT_EMAIL]

NoRun == /\ urls_to_try = <<>> /\ attempt = 0 /\ matches = <<>> /\ net = <<>>
         /\ response = <<>>
         /\ excel_file = <<>> /\ header_row = <<>> /\ mapping = <<>>
         /\ cheque_df = <<>> /\ df = <<>> /\ today = <<>> /\ reminders = <<>>
         /\ success = <<>> /\ raised = FALSE /\ exit_code = <<>>

Init ==
    /\ pc = "main"
    /\ env \in Envs
    /\ config = <<>>
    /\ missing_config = <<>>
    /\ NoRun

\* main(): read the configuration, validate it, start the reminder system
Main ==
    /\ pc = "main"
    /\ IF env.SMTP_PORT # Unset /\ ~IsIntText(env.SMTP_PORT[1])
       THEN \* int() raises ValueError; nothing catches it
            /\ raised' = TRUE
            /\ pc' = "exit"
            /\ UNCHANGED <<config, missing_config, success>>
       ELSE /\ config' = <<ConfigOf(env)>>
            /\ missing_config' = MissingKeys(env)
            /\ IF MissingKeys(env) # <<>>
               THEN success' = <<FALSE>> /\ pc' = "exit"
               ELSE success' = success /\ pc' = "run"
            /\ UNCHANGED raised
    /\ UNCHANGED <<env, urls_to_try, attempt, matches, net, response, excel_file,
                   header_row, mapping, cheque_df, df, today, reminders, exit_code>>

\* run_reminder_check() enters download_excel_file(): the candidate list
StartDownload ==
    /\ pc = "run"
    /\ urls_to_try' = candidate_urls(config[1].sharepoint_shared_url[1])
    /\ attempt' = 1
    /\ pc' = "download"
    /\ UNCHANGED <<env, config, missing_config, matches, net, response, excel_file,
                   header_row, mapping, cheque_df, df, today, reminders, success,
                   raised, exit_code>>

\* mutant: the loop ends one candidate early
ExhaustedEarly(i, urls) == i >= Len(urls)

\* "for i, url in enumerate(urls_to_try)" has run out of candidates
Exhausted(i, urls) == i > Len(urls)

\* session.get(url, ...) of the next candidate: a response or an exception
DownloadGet ==
    /\ pc = "download"
    /\ ~Exhausted(attempt, urls_to_try)
    /\ response = <<>>
    /\ \E r \in Responses : response' = <<r>>
    /\ UNCHANGED <<pc, env, config, missing_config, urls_to_try, attempt, matches,
                   net, excel_file, header_row, mapping, cheque_df, df, today,
                   reminders, success, raised, exit_code>>

\* the rest of one iteration of "for i, url in enumerate(urls_to_try)": the
\* response is returned as the file, or the loop goes on
DownloadAttempt ==
    /\ pc = "download"
    /\ response # <<>>
    /\ LET r   == response[1]
           get == Event("get", urls_to_try[attempt], AcceptDirect(r))
       IN  IF AcceptDirect(r)
           THEN /\ net' = Append(net, get)
                /\ excel_file' = <<r.content>>
                /\ pc' = "parse"
                /\ UNCHANGED <<attempt, response>>
           ELSE /\ net' = IF SleepsAfter(r)
                          THEN net \o <<get, Event("sleep", <<>>, TRUE)>>
                          ELSE Append(net, get)
                /\ attempt' = attempt + 1
                /\ response' = <<>>
                /\ UNCHANGED <<excel_file, pc>>
    /\ UNCHANGED <<env, config, missing_config, urls_to_try, matches, header_row,
                   mapping, cheque_df, df, today, reminders, success, raised,
                   exit_code>>

\* every candidate failed: extract_file_from_sharepoint_page() requests the
\* shared link and scans the page; without a URL to try the download is None
\* and run_reminder_check() returns False
ExtractPage ==
    /\ pc = "download"
    /\ Exhausted(attempt, urls_to_try)
    /\ response = <<>>
    /\ net' = Append(net, Event("get_page", config[1].sharepoint_shared_url[1], FALSE))
    /\ \E r \in {RequestException,
                 [raised |-> FALSE, status |-> NotFound, ctype |-> <<>>, content |-> NoContent],
                 [raised |-> FALSE, status |-> HTTP_OK, ctype |-> <<>>, content |-> NoContent]} :
       \E page \in Pages :
        LET found == IF ~r.raised /\ r.status = HTTP_OK
                     THEN extracted_urls(page) ELSE <<>>
        IN  /\ matches' = found
            /\ IF found = <<>>
               THEN success' = <<FALSE>> /\ pc' = "exit"
               ELSE success' = success /\ pc' = "extract"
    /\ UNCHANGED <<env, config, missing_config, urls_to_try, attempt, response,
                   excel_file, header_row, mapping, cheque_df, df, today, reminders,
                   raised, exit_code>>

\* session.get(download_url, ...) of the next extracted URL
ExtractGet ==
    /\ pc = "extract"
    /\ matches # <<>>
    /\ response = <<>>
    /\ \E r \in Responses : response' = <<r>>
    /\ UNCHANGED <<pc, env, config, missing_config, urls_to_try, attempt, matches,
                   net, excel_file, header_row, mapping, cheque_df, df, today,
                   reminders, success, raised, exit_code>>

\* the response of an extracted URL is returned as the file, or the loops
\* over patterns and matches go on
ExtractAttempt ==
    /\ pc = "extract"
    /\ response # <<>>
    /\ LET r == response[1]
       IN  /\ net' = Append(net, Event("get_extracted", matches[1], AcceptDirect(r)))
           /\ IF AcceptExtracted(r)
              THEN /\ excel_file' = <<r.content>>
                   /\ pc' = "parse"
                   /\ UNCHANGED <<matches, success, response>>
              ELSE /\ matches' = Tail(matches)
                   /\ response' = <<>>
                   /\ UNCHANGED excel_file
                   /\ IF Tail(matches) = <<>>
                      THEN success' = <<FALSE>> /\ pc' = "exit"
                      ELSE success' = success /\ pc' = pc
    /\ UNCHANGED <<env, config, missing_config, urls_to_try, attempt, header_row,
                   mapping, cheque_df, df, today, reminders, raised, exit_code>>

\* parse_excel_data(excel_file); a None result makes run_reminder_check()
\* return False
ParseExcelData ==
    /\ pc = "parse"
    /\ response' = <<>>
    /\ LET out == parse_excel_data(excel_file[1])
       IN  /\ header_row' = IF excel_file[1].workbook
                            THEN <<HeaderRowUsed(excel_file[1].grid)>> ELSE <<>>
           /\ mapping' = out.cm
           /\ cheque_df' = out.cheque
           /\ df' = out.result
           /\ IF out.result = <<>>
              THEN success' = <<FALSE>> /\ pc' = "exit"
              ELSE success' = success /\ pc' = "find"
    /\ UNCHANGED <<env, config, missing_config, urls_to_try, attempt, matches, net,
                   excel_file, today, reminders, raised, exit_code>>

\* df['Date of Transfer'].dt raises AttributeError unless every value of the
\* column is a datetime; find_reminders_needed reaches it for a frame that is
\* neither None nor empty
dt_raises(frame) ==
    /\ frame # <<>>
    /\ ~empty(frame[1])
    /\ \E i \in 1..Len(frame[1].rows) :
          frame[1].rows[i][DateColumn(frame[1])].t # "d"

\* find_reminders_needed(df); with nothing selected run_reminder_check()
\* returns True without calling send_email_reminder(). Neither function has
\* an exception handler: an exception of the selection leaves both.
FindRemindersNeeded ==
    /\ pc = "find"
    /\ \E now \in Todays :
        /\ today' = <<now>>
        /\ IF dt_raises(df)
           THEN /\ raised' = TRUE
                /\ pc' = "exit"
                /\ UNCHANGED <<reminders, success>>
           ELSE /\ reminders' = find_reminders_needed(df, now)
                /\ IF find_reminders_needed(df, now) = <<>>
                   THEN success' = <<TRUE>> /\ pc' = "exit"
                   ELSE success' = success /\ pc' = "send"
                /\ UNCHANGED raised
    /\ UNCHANGED <<env, config, missing_config, urls_to_try, attempt, matches, net,
                   response, excel_file, header_row, mapping, cheque_df, df,
                   exit_code>>

smtp_steps == <<"smtp_connect", "smtp_starttls", "smtp_login",
                "smtp_send_message", "smtp_quit">>

\* mutant: after a failure the session is opened and used once more
smtp_events_retried(failing) ==
    IF failing = 0
    THEN [k \in 1..Len(smtp_steps) |-> Event(smtp_steps[k], <<>>, TRUE)]
    ELSE [k \in 1..failing |-> Event(smtp_steps[k], <<>>, k # failing)]
         \o [k \in 1..Len(smtp_steps) |-> Event(smtp_steps[k], <<>>, TRUE)]

\* the SMTP calls made when call number failing raises (0: none raises): the
\* calls before it succeed, it fails, the calls after it are not made
smtp_events(failing) ==
    [k \in 1..(IF failing = 0 THEN Len(smtp_steps) ELSE failing) |->
        Event(smtp_steps[k], <<>>, k # failing)]

\* send_email_reminder(reminders): True unless a call raised
SendEmailReminder ==
    /\ pc = "send"
    /\ \E failing \in 0..Len(smtp_steps) :
        /\ net' = net \o smtp_events(failing)
        /\ success' = <<failing = 0>>
    /\ pc' = "exit"
    /\ UNCHANGED <<env, config, missing_config, urls_to_try, attempt, matches,
                   response, excel_file, header_row, mapping, cheque_df, df, today,
                   reminders, raised, exit_code>>

\* mutant: the status does not depend on the outcome
ExitStatusIgnoringOutcome(ok) == 0

\* exit(0 if success else 1)
ExitStatus(ok) == IF ok THEN 0 ELSE 1

\* the process ends: main() returned success, or an uncaught exception ended
\* the interpreter with status 1
Exit ==
    /\ pc = "exit"
    /\ exit_code' = <<IF raised THEN 1 ELSE ExitStatus(success = <<TRUE>>)>>
    /\ pc' = "done"
    /\ response' = <<>>
    /\ UNCHANGED <<env, config, missing_config, urls_to_try, attempt, matches, net,
                   excel_file, header_row, mapping, cheque_df, df, today, reminders,
                   success, raised>>

Next ==
    \/ Main
    \/ StartDownload
    \/ DownloadGet
    \/ DownloadAttempt
    \/ ExtractPage
    \/ ExtractGet
    \/ ExtractAttempt
    \/ ParseExcelData
    \/ FindRemindersNeeded
    \/ SendEmailReminder
    \/ Exit

Spec == Init /\ [][Next]_vars

----------------------------------------------------------------------------
(* The parse specification: parse_excel_data and find_reminders_needed on
   every generated sheet, entered as run_reminder_check() enters them. *)

ValidEnv ==
    [SHAREPOINT_SHARED_URL |-> <<UrlView>>, SMTP_SERVER |-> <<SomeText>>,
     SMTP_PORT |-> Unset, EMAIL_USERNAME |-> <<SomeText>>,
     EMAIL_PASSWORD |-> <<SomeText>>, RECIPIENT_EMAIL |-> <<SomeText>>]

InitParse ==
    /\ pc = "parse"
    /\ env = ValidEnv
    /\ config = <<ConfigOf(ValidEnv)>>
    /\ missing_config = <<>>
    /\ urls_to_try = candidate_urls(UrlView)
    /\ attempt = 1
    /\ matches = <<>>
    /\ net = <<Event("get", UrlView, TRUE)>>
    /\ response = <<>>
    /\ \E g \in ParseGrids :
        excel_file = <<[head |-> PKSignature, len |-> MIN_CONTENT_LENGTH + 1,
                        workbook |-> TRUE, grid |-> g]>>
    /\ header_row = <<>> /\ mapping = <<>> /\ cheque_df = <<>> /\ df = <<>>
    /\ today = <<>> /\ reminders = <<>> /\ success = <<>>
    /\ raised = FALSE /\ exit_code = <<>>

NextParse ==
    \/ ParseExcelData
    \/ FindRemindersNeeded

SpecParse == InitParse /\ [][NextParse]_vars

----------------------------------------------------------------------------
(* cheque_reminder.py, the repository's second script: its own
   convert_sharepoint_url_to_direct_download, download_excel_file and
   extract_file_from_sharepoint_page.  The specification below runs its
   download stage for every shared link. *)

XMarker == <<":","x",":">>
BMarker == <<":","b",":">>
DocAspxSourcedoc == <<"/","_","l","a","y","o","u","t","s","/","1","5","/","D","o","c",".","a","s","p","x","?","s","o","u","r","c","e","d","o","c","=">>

\* cheque_reminder.py convert_sharepoint_url_to_direct_download: base_url and
\* the first download_url are computed and then overwritten
cheque_convert_sharepoint_url_to_direct_download(shared_url) ==
    IF contains(shared_url, SharepointCom) /\ contains(shared_url, XMarker)
    THEN IF contains(shared_url, DocAspxSourcedoc) THEN shared_url
         ELSE replace(shared_url, XMarker, BMarker)
    ELSE shared_url

\* cheque_reminder.py urls_to_try: no duplicate is removed
cheque_urls_to_try(shared_url) ==
    LET download_url == cheque_convert_sharepoint_url_to_direct_download(shared_url)
    IN  << download_url,
           shared_url,
           IF contains(download_url, <<"?">>)
           THEN download_url \o AmpDownload ELSE download_url \o QDownload >>

\* cheque_reminder.py: a 200 response is returned as the file when its
\* content-type names a spreadsheet OR its body is longer than 1000 bytes
ChequeAcceptDirect(r) ==
    /\ ~r.raised
    /\ r.status = HTTP_OK
    /\ \/ contains(lower(r.ctype), Excel)
       \/ contains(lower(r.ctype), Spreadsheet)
       \/ contains(lower(r.ctype), VndOpenXml)
       \/ r.content.len > MIN_CONTENT_LENGTH

\* cheque_reminder.py: any 200 response to an extracted URL is the file
ChequeAcceptExtracted(r) == ~r.raised /\ r.status = HTTP_OK

ChequeNumPatterns == 3

\* cheque_reminder.py: matches[0] of each pattern that matches, with only
\* & unescaped
RECURSIVE ChequeExtractedFrom(_, _)
ChequeExtractedFrom(page, p) ==
    IF p > ChequeNumPatterns THEN <<>>
    ELSE (IF findall(p, page) # <<>>
          THEN <<replace(findall(p, page)[1], EscapedAmp, <<"&">>)>> ELSE <<>>)
         \o ChequeExtractedFrom(page, p + 1)

cheque_extracted_urls(page) == ChequeExtractedFrom(page, 1)

ChequeStartDownload ==
    /\ pc = "run"
    /\ urls_to_try' = cheque_urls_to_try(config[1].sharepoint_shared_url[1])
    /\ attempt' = 1
    /\ pc' = "download"
    /\ UNCHANGED <<env, config, missing_config, matches, net, response, excel_file,
                   header_row, mapping, cheque_df, df, today, reminders, success,
                   raised, exit_code>>

\* the rest of one iteration of "for url in urls_to_try"; no delay follows
ChequeDownloadAttempt ==
    /\ pc = "download"
    /\ response # <<>>
    /\ LET r == response[1]
       IN  /\ net' = Append(net, Event("get", urls_to_try[attempt], ChequeAcceptDirect(r)))
           /\ IF ChequeAcceptDirect(r)
              THEN /\ excel_file' = <<r.content>>
                   /\ pc' = "parse"
                   /\ UNCHANGED <<attempt, response>>
              ELSE /\ attempt' = attempt + 1
                   /\ response' = <<>>
                   /\ UNCHANGED <<excel_file, pc>>
    /\ UNCHANGED <<env, config, missing_config, urls_to_try, matches, header_row,
                   mapping, cheque_df, df, today, reminders, success, raised,
                   exit_code>>

\* cheque_reminder.py extract_file_from_sharepoint_page: the page request
ChequeExtractPage ==
    /\ pc = "download"
    /\ Exhausted(attempt, urls_to_try)
    /\ response = <<>>
    /\ net' = Append(net, Event("get_page", config[1].sharepoint_shared_url[1], FALSE))
    /\ \E r \in {RequestException,
                 [raised |-> FALSE, status |-> NotFound, ctype |-> <<>>, content |-> NoContent],
                 [raised |-> FALSE, status |-> HTTP_OK, ctype |-> <<>>, content |-> NoContent]} :
       \E page \in Pages :
        LET found == IF ~r.raised /\ r.status = HTTP_OK
                     THEN cheque_extracted_urls(page) ELSE <<>>
        IN  /\ matches' = found
            /\ IF found = <<>>
               THEN success' = <<FALSE>> /\ pc' = "exit"
               ELSE success' = success /\ pc' = "extract"
    /\ UNCHANGED <<env, config, missing_config, urls_to_try, attempt, response,
                   excel_file, header_row, mapping, cheque_df, df, today, reminders,
                   raised, exit_code>>

\* the response of an extracted URL: returned when 200; an exception ends the
\* function in its outer handler; otherwise the next pattern is tried
ChequeExtractAttempt ==
    /\ pc = "extract"
    /\ response # <<>>
    /\ LET r == response[1]
       IN  /\ net' = Append(net, Event("get_extracted", matches[1], ChequeAcceptExtracted(r)))
           /\ IF ChequeAcceptExtracted(r)
              THEN /\ excel_file' = <<r.content>>
                   /\ pc' = "parse"
                   /\ UNCHANGED <<matches, success, response>>
              ELSE /\ matches' = Tail(matches)
                   /\ response' = <<>>
                   /\ UNCHANGED excel_file
                   /\ IF r.raised \/ Tail(matches) = <<>>
                      THEN success' = <<FALSE>> /\ pc' = "exit"
                      ELSE success' = success /\ pc' = pc
    /\ UNCHANGED <<env, config, missing_config, urls_to_try, attempt, header_row,
                   mapping, cheque_df, df, today, reminders, raised, exit_code>>

InitCheque ==
    /\ pc = "run"
    /\ \E u \in SharedUrls :
        /\ env = [ValidEnv EXCEPT !.SHAREPOINT_SHARED_URL = <<u>>]
        /\ config = <<ConfigOf([ValidEnv EXCEPT !.SHAREPOINT_SHARED_URL = <<u>>])>>
    /\ missing_config = <<>>
    /\ NoRun

NextCheque ==
    \/ ChequeStartDownload
    \/ DownloadGet
    \/ ChequeDownloadAttempt
    \/ ChequeExtractPage
    \/ ExtractGet
    \/ ChequeExtractAttempt

SpecCheque == InitCheque /\ [][NextCheque]_vars

----------------------------------------------------------------------------
(* Properties.  What a run did is read off its record: env, net, the file,
   the parse result, the reminders and the exit code. *)

RequiredNames == {"SHAREPOINT_SHARED_URL", "SMTP_SERVER", "EMAIL_USERNAME",
                  "EMAIL_PASSWORD", "RECIPIENT_EMAIL"}

MissingNames(e) == {n \in RequiredNames : e[n] = Unset \/ e[n] = <<<<>>>>}

EventsOf(kinds) == SelectSeq(net, LAMBDA e : e.ev \in kinds)

SmtpKinds == {smtp_steps[k] : k \in DOMAIN smtp_steps}
HttpKinds == {"get", "get_page", "get_extracted"}

NoSmtp == EventsOf(SmtpKinds) = <<>>
EmailSent == \E i \in 1..Len(net) : net[i].ev = "smtp_send_message" /\ net[i].ok

MissingConfiguration == MissingNames(env) # {}
FetchFailure == urls_to_try # <<>> /\ excel_file = <<>>
ParseFailure == excel_file # <<>> /\ df = <<>>
SendFailure  == \E i \in 1..Len(net) : net[i].ev \in SmtpKinds /\ ~net[i].ok

\* the run went through every stage without a failure
CompletedSuccessfully ==
    /\ ~MissingConfiguration
    /\ ~raised
    /\ excel_file # <<>>
    /\ df # <<>>
    /\ \/ reminders = <<>> /\ NoSmtp
       \/ reminders # <<>> /\ EmailSent /\ ~SendFailure

\* C1: when the process has exited, its exit code is 0 exactly when the run
\* completed successfully (the run with no reminder due included), and it is 1
\* after a fetch failure, a parse failure, a send failure or with a required
\* setting missing.
C1_ExitCodeContract ==
    pc = "done" =>
        /\ exit_code \in {<<0>>, <<1>>}
        /\ (exit_code = <<0>>) <=> CompletedSuccessfully
        /\ (MissingConfiguration \/ FetchFailure \/ ParseFailure \/ SendFailure)
              => exit_code = <<1>>

\* a run that found the file, parsed it, had nothing due and exited 0
C1_Witness ==
    /\ pc = "done"
    /\ exit_code = <<0>>
    /\ df # <<>> /\ df[1].rows # <<>>
    /\ reminders = <<>>

\* no response of the run, to a candidate or to an extracted URL, passed the
\* acceptance rule for spreadsheet bytes
NoAcceptableResponse ==
    \A i \in 1..Len(net) : net[i].ev \in {"get", "get_extracted"} => ~net[i].ok

\* C2: a run in which no candidate URL, direct or scraped from the page,
\* returned acceptable spreadsheet bytes opened no SMTP session, sent no email
\* and exited 1.
C2_NoFileNoEmail ==
    (pc = "done" /\ urls_to_try # <<>> /\ NoAcceptableResponse)
        => (NoSmtp /\ ~EmailSent /\ exit_code = <<1>>)

\* such a run, in which extracted URLs were requested as well
C2_Witness ==
    /\ pc = "done"
    /\ NoAcceptableResponse
    /\ EventsOf({"get"}) # <<>>
    /\ EventsOf({"get_extracted"}) # <<>>
    /\ exit_code = <<1>>

DateIndex(frame) == CHOOSE i \in 1..Len(frame.columns) : frame.columns[i] = DateOfTransfer
ModeIndex(frame) == CHOOSE i \in 1..Len(frame.columns) : frame.columns[i] = ModeOfPayment

\* the parsed table has rows, all with dates, none of them three days ahead
RowsButNoneDue ==
    /\ df # <<>> /\ df[1].rows # <<>>
    /\ today # <<>>
    /\ \A i \in 1..Len(df[1].rows) :
          LET cell == df[1].rows[i][DateIndex(df[1])]
          IN  cell.t = "d" /\ CellOrdinal(cell) # today[1] + 3

\* C3: when the parsed table has cheque rows with valid dates and none is
\* dated today + 3, the run sends no email and exits 0.
C3_NothingDueIsSuccess ==
    (pc = "done" /\ RowsButNoneDue) => (NoSmtp /\ ~EmailSent /\ exit_code = <<0>>)

\* such a run: a cheque dated today + 2 or today + 4 and nothing sent
C3_Witness ==
    /\ pc = "done"
    /\ RowsButNoneDue
    /\ \E i \in 1..Len(df[1].rows) :
          CellOrdinal(df[1].rows[i][DateIndex(df[1])]) - today[1] \in {2, 4}
    /\ exit_code = <<0>>


KeyOf == [SHAREPOINT_SHARED_URL |-> "sharepoint_shared_url",
          SMTP_SERVER |-> "smtp_server", EMAIL_USERNAME |-> "email_username",
          EMAIL_PASSWORD |-> "email_password", RECIPIENT_EMAIL |-> "recipient_email"]

Reported == {missing_config[i] : i \in 1..Len(missing_config)}

\* C4: once main() has read its configuration, a missing or empty required
\* setting means the run has ended without any HTTP request or SMTP call and
\* with every missing name reported (and exit code 1); with all of them set
\* and SMTP_PORT unset the run is not aborted and the port is 587.
C4_MissingConfigurationAborts ==
    /\ (pc # "main" /\ MissingConfiguration) =>
          /\ net = <<>> /\ urls_to_try = <<>>
          /\ pc \in {"exit", "done"}
          /\ Reported = {KeyOf[n] : n \in MissingNames(env)}
          /\ (pc = "done" => exit_code = <<1>>)
    /\ (pc # "main" /\ ~MissingConfiguration /\ env.SMTP_PORT = Unset) =>
          /\ config # <<>> /\ config[1].smtp_port = 587
          /\ missing_config = <<>>
          /\ (pc \in {"exit", "done"} => urls_to_try # <<>>)

Count(seq, x) == Cardinality({i \in 1..Len(seq) : seq[i] = x})
Range(seq) == {seq[i] : i \in 1..Len(seq)}

DaysAhead(frame, row) == CellOrdinal(row[DateIndex(frame)]) - today[1]

\* C5: after find_reminders_needed, the rows selected are exactly the rows of
\* the filtered table dated today + 3: every such row is selected, as often
\* as it occurs, and no row with another date (today + 2, today + 4, ...) is.
C5_SelectorExact ==
    (today # <<>> /\ df # <<>>) =>
        /\ Range(reminders) \subseteq Range(df[1].rows)
        /\ \A row \in Range(df[1].rows) :
              Count(reminders, row) =
                 IF DaysAhead(df[1], row) = 3 THEN Count(df[1].rows, row) ELSE 0

\* a table with a row dated today + 3, selected, next to a row dated today + 2
\* or today + 4, left out
C5_Witness ==
    /\ today # <<>> /\ df # <<>>
    /\ reminders # <<>>
    /\ \E row \in Range(df[1].rows) :
          DaysAhead(df[1], row) \in {2, 4} /\ row \notin Range(reminders)

\* C6: every record handed to send_email_reminder has a transfer date that is
\* a date (not null) and a payment-mode text that contains "cheque" or "check"
\* when lower-cased.
C6_ReminderSetInvariant ==
    \A i \in 1..Len(reminders) :
        LET mode == reminders[i][ModeIndex(df[1])]
            date == reminders[i][DateIndex(df[1])]
        IN  /\ date.t = "d"
            /\ mode.t = "s"
            /\ contains(lower(mode.s), Cheque) \/ contains(lower(mode.s), Check)

\* the notifier was called with records, next to a row that was filtered out
C6_Witness ==
    /\ reminders # <<>>
    /\ EventsOf(SmtpKinds) # <<>>
    /\ Len(excel_file[1].grid) - 1 > Len(reminders)


\* the parse has run on a sheet
Parsed == header_row # <<>>

\* the labels the parse read from the sheet, after its rename
ParsedColumns == rename(read_excel(excel_file[1].grid).columns, mapping[1])

\* the transfer-date cells of the cheque rows as they stood in the sheet
OriginalDates ==
    LET di == Only(ColumnsNamed(ParsedColumns, DateOfTransfer))
    IN  [i \in 1..Len(cheque_df) |-> cheque_df[i][di]]

TextColumn(col) == \A i \in 1..Len(col) : col[i].t \in {"s", "e"}

Parses(col, k) == valid_dates(to_datetime_column(col, date_formats[k])) > 0

\* the cheque rows with their dates read in format k, the nulls dropped
RowsParsedWith(k) ==
    LET di   == Only(ColumnsNamed(ParsedColumns, DateOfTransfer))
        conv == to_datetime_column(OriginalDates, date_formats[k])
    IN  SelectSeq([i \in 1..Len(cheque_df) |-> [cheque_df[i] EXCEPT ![di] = conv[i]]],
                  LAMBDA r : notna(r[di]))

\* C7: for a transfer-date column given as text, the rows returned are the
\* cheque rows parsed with the first format of the list that parses at least
\* one value of the column as it stood in the sheet (so a column of ISO dates
\* is parsed with the ISO format and its rows are kept); the values that do
\* not match that format are dropped.
C7_FirstParsingFormatWins ==
    (Parsed /\ df # <<>> /\ cheque_df # <<>> /\ TextColumn(OriginalDates)) =>
        \A k \in 1..Len(date_formats) :
            (Parses(OriginalDates, k) /\ \A j \in 1..(k - 1) : ~Parses(OriginalDates, j))
                => df[1].rows = RowsParsedWith(k)

\* the filter was reached: both columns resolved and one column carries the
\* payment mode
FilterReached ==
    /\ Parsed /\ mapping # <<>>
    /\ Cardinality(ColumnsNamed(ParsedColumns, ModeOfPayment)) = 1

SheetRows == read_excel(excel_file[1].grid).rows
SheetModeIndex == Only(ColumnsNamed(ParsedColumns, ModeOfPayment))

HasSubstring(s, w) ==
    \E i \in 1..(Len(s) - Len(w) + 1) : SubSeq(s, i, i + Len(w) - 1) = w

\* the claim's rule for one payment-mode cell
KeptByRule(cell) ==
    \/ HasSubstring(lower(astype_str(cell)), Cheque)
    \/ HasSubstring(lower(astype_str(cell)), Check)

KeptExamples ==
    { <<"C","h","e","q","u","e">>, <<"C","H","E","Q","U","E">>,
      <<"B","a","n","k"," ","C","h","e","q","u","e">>, <<"c","h","e","c","k">> }
DroppedExamples == { <<"W","i","r","e"," ","T","r","a","n","s","f","e","r">>, <<>> }

AsText(row, mi) == [row EXCEPT ![mi] = Text(astype_str(row[mi]))]

\* C8: the rows after the filter are exactly the sheet's rows, in order, whose
\* payment mode as lower-cased text contains "cheque" or "check"; rows with
\* "Cheque", "CHEQUE", "Bank Cheque" or "check" are kept, rows with "Wire
\* Transfer" or a missing or empty value are not; and with no row kept the
\* parse returns an empty table, not a failure.
C8_ChequeFilter ==
    FilterReached =>
        LET mi == SheetModeIndex
        IN  /\ cheque_df = SelectSeq([i \in 1..Len(SheetRows) |-> AsText(SheetRows[i], mi)],
                                     LAMBDA r : KeptByRule(r[mi]))
            /\ \A i \in 1..Len(SheetRows) :
                  LET cell == SheetRows[i][mi]
                  IN  /\ (cell.t = "s" /\ cell.s \in KeptExamples)
                          => AsText(SheetRows[i], mi) \in Range(cheque_df)
                      /\ (cell.t = "e" \/ (cell.t = "s" /\ cell.s \in DroppedExamples))
                          => AsText(SheetRows[i], mi) \notin Range(cheque_df)
            /\ cheque_df = <<>> => (df = <<EmptyDataFrame>> /\ success # <<FALSE>>)

\* a sheet where an upper-case cheque row is kept and another row is dropped
C8_Witness ==
    /\ FilterReached
    /\ \E r \in Range(cheque_df) : r[SheetModeIndex].s = <<"C","H","E","Q","U","E">>
    /\ Len(cheque_df) < Len(SheetRows)

\* a sheet where no row is kept and the parse returns the empty table
C8_WitnessEmpty ==
    FilterReached /\ SheetRows # <<>> /\ cheque_df = <<>> /\ df = <<EmptyDataFrame>>

TargetWords ==
    << {<<"m","o","d","e">>, <<"o","f">>, <<"p","a","y","m","e","n","t">>},
       {<<"d","a","t","e">>, <<"o","f">>, <<"t","r","a","n","s","f","e","r">>} >>

\* twice the match score of one cell for one target: 2 for a full point, 1
\* for a half point
CellScore(cell, k) ==
    LET text == lower(astype_str(cell))
    IN  IF ~notna(cell) THEN 0
        ELSE IF \A w \in TargetWords[k] : contains(text, w) THEN 2
        ELSE IF \E w \in TargetWords[k] : contains(text, w) THEN 1
        ELSE 0

RECURSIVE SumScores(_, _, _)
SumScores(row, k, j) ==
    IF j > Len(row) THEN 0 ELSE CellScore(row[j], k) + SumScores(row, k, j + 1)

RowScore(row) == SumScores(row, 1, 1) + SumScores(row, 2, 1)



\* the row of highest score among the first five, the lowest index on a tie
BestRow(grid) ==
    LET n == IF Len(grid) < 5 THEN Len(grid) ELSE 5
    IN  CHOOSE r \in 1..n :
            /\ \A q \in 1..n : RowScore(grid[q]) <= RowScore(grid[r])
            /\ \A q \in 1..(r - 1) : RowScore(grid[q]) < RowScore(grid[r])

ExampleGrid ==
    << <<T(<<"R","e","f">>), T(<<"X">>), T(<<"Y">>)>>,
       <<T(ModeOfPayment), T(DateOfTransfer), T(Amount)>>,
       ExampleRow >>

\* C9: the header row used for a sheet is the row of highest match score
\* among its first 5 rows, the lowest index on a tie; for the sheet
\* [Ref, X, Y], [Mode of Payment, Date of Transfer, Amount], [1, Cheque,
\* 01-Jan-25] it is row 1 and the parse does not fail.
C9_HeaderRowIsBestScoring ==
    Parsed =>
        LET grid == excel_file[1].grid
        IN  /\ (\E r \in 1..Len(grid) : r <= 5 /\ RowScore(grid[r]) > 0)
                => header_row = <<BestRow(grid) - 1>>
            /\ grid = ExampleGrid => (header_row = <<1>> /\ df # <<>>)

Keywords ==
    << {<<"m","o","d","e">>, <<"p","a","y","m","e","n","t">>, <<"p","a","y">>,
        <<"m","e","t","h","o","d">>},
       {<<"d","a","t","e">>, <<"t","r","a","n","s","f","e","r">>, <<"d","u","e">>} >>

ExactLabel(label, k) == strip(lower(label)) = lower(required_columns[k])
EveryWord(label, k) == \A w \in TargetWords[k] : contains(lower(label), w)
AnyKeyword(label, k) == \E w \in Keywords[k] : contains(lower(label), w)

FirstLabel(columns, k, Rule(_, _)) ==
    IF \E i \in 1..Len(columns) : Rule(columns[i], k)
    THEN <<columns[CHOOSE i \in 1..Len(columns) :
                /\ Rule(columns[i], k)
                /\ \A j \in 1..(i - 1) : ~Rule(columns[j], k)]>>
    ELSE <<>>

\* the claim's resolution of canonical field k: exact label, else a label
\* with every word of the name, else a label with a keyword of the field
Resolved(columns, k) ==
    IF FirstLabel(columns, k, ExactLabel) # <<>> THEN FirstLabel(columns, k, ExactLabel)
    ELSE IF FirstLabel(columns, k, EveryWord) # <<>> THEN FirstLabel(columns, k, EveryWord)
    ELSE FirstLabel(columns, k, AnyKeyword)

\* C10: each canonical field resolves to the first label that matches (a)
\* exactly, case-insensitively, else (b) by containing every word of the
\* name, else (c) by containing a keyword of the field; if a field resolves
\* to no column the parse fails.
C10_ResolutionOrder ==
    Parsed =>
        LET columns == read_excel(excel_file[1].grid).columns
            fields  == 1..Len(required_columns)
        IN  /\ (\A k \in fields : Resolved(columns, k) # <<>>)
                => mapping = <<[k \in fields |-> Resolved(columns, k)[1]]>>
            /\ (\E k \in fields : Resolved(columns, k) = <<>>)
                => (mapping = <<>> /\ df = <<>> /\ success = <<FALSE>>)


\* the labels read_excel gave the sheet's columns
SheetColumns == read_excel(excel_file[1].grid).columns

\* the sheet has a column literally named after each canonical field
Canonicalized ==
    \A k \in 1..Len(required_columns) :
        \E i \in 1..Len(SheetColumns) : SheetColumns[i] = required_columns[k]

\* no column placed before a canonical column carries the same name up to
\* letter case and surrounding blanks
NotShadowed ==
    \A k \in 1..Len(required_columns) :
        \A i \in 1..Len(SheetColumns) :
            SheetColumns[i] = required_columns[k] =>
                \A j \in 1..(i - 1) :
                    strip(lower(SheetColumns[j])) # strip(lower(required_columns[k]))

IdentityMapping ==
    /\ mapping = <<required_columns>>
    /\ ParsedColumns = SheetColumns

\* C11 as stated: on a sheet whose columns include the two canonical names
\* literally, in any position and next to any other columns, resolution
\* yields the identity mapping and the renamed table has the input's labels.
C11_ResolutionIdempotent ==
    (Parsed /\ Canonicalized) => IdentityMapping

\* C11 as amended: the same, for sheets in which no column placed before a
\* canonical column carries the same name up to letter case and surrounding
\* blanks.
C11_ResolutionIdempotentUnshadowed ==
    (Parsed /\ Canonicalized /\ NotShadowed) => IdentityMapping

\* a sheet with the canonical columns behind another column that matches one
\* of them partially, resolved to the identity mapping
C11_Witness ==
    /\ Parsed /\ Canonicalized /\ NotShadowed
    /\ SheetColumns[1] \notin Range(required_columns)
    /\ PartialMatch(SheetColumns[1], ModeOfPayment)
    /\ IdentityMapping


BeginsWith(bytes, marker) ==
    Len(bytes) >= Len(marker) /\ SubSeq(bytes, 1, Len(marker)) = marker

\* the four conditions of the acceptance rule, on a response
StatusOk(r) == ~r.raised /\ r.status = 200
NotHtml(r) ==
    /\ ~HasSubstring(lower(r.ctype), TextHtml)
    /\ ~BeginsWith(r.content.head, Doctype)
    /\ ~BeginsWith(r.content.head, HtmlTag)
SpreadsheetLike(r) ==
    \/ \E t \in {Excel, Spreadsheet, VndOpenXml, OctetStream} :
            HasSubstring(lower(r.ctype), t)
    \/ BeginsWith(r.content.head, PKSignature)
    \/ BeginsWith(r.content.head, OleSignature)
LongEnough(r) == r.content.len > 1000

SpreadsheetBytes(r) ==
    StatusOk(r) /\ NotHtml(r) /\ SpreadsheetLike(r) /\ LongEnough(r)

LastEvent == net[Len(net)]

\* C12: whenever download_excel_file holds the response of a candidate URL,
\* its next step returns the body as the file if and only if the status is
\* 200, the content is not HTML, the content-type or the leading bytes
\* indicate a spreadsheet, and the body is longer than 1000 bytes; so a long
\* 200 response with neither a spreadsheet type nor a signature is not taken.
C12_AcceptanceRule ==
    [][(pc = "download" /\ response # <<>>) =>
          ((pc' = "parse" /\ excel_file' = <<response[1].content>>)
              <=> SpreadsheetBytes(response[1]))]_vars

\* a candidate's response without a content-type was taken as the file on
\* its signature and length
C12_Witness ==
    /\ pc = "parse" /\ response # <<>>
    /\ LastEvent.ev = "get" /\ LastEvent.ok
    /\ response[1].ctype = <<>>
    /\ excel_file = <<response[1].content>>


\* the requests of candidate URLs, in the order made
Gets == EventsOf({"get"})

\* the page fallback has made a request
FallbackStarted == \E i \in 1..Len(net) : net[i].ev \in {"get_page", "get_extracted"}

\* C13: the candidates are requested in list order, one request each; an
\* accepted response is the last request of the run (no later candidate, no
\* page fallback) and its bytes are the file returned; the page fallback is
\* entered only after every candidate was requested and none accepted.
C13_FirstAcceptedWins ==
    /\ Len(Gets) <= Len(urls_to_try)
    /\ \A i \in 1..Len(Gets) : Gets[i].url = urls_to_try[i]
    /\ \A i \in 1..Len(Gets) : Gets[i].ok => i = Len(Gets) /\ ~FallbackStarted
    /\ \A i \in 1..Len(net) :
          (net[i].ev = "get" /\ net[i].ok) =>
              \A j \in (i + 1)..Len(net) : net[j].ev \notin HttpKinds
    /\ (net # <<>> /\ LastEvent.ev = "get" /\ LastEvent.ok) => excel_file # <<>>
    /\ (pc = "parse" /\ LastEvent.ev = "get") =>
          /\ response # <<>> /\ excel_file = <<response[1].content>>
          /\ SpreadsheetBytes(response[1])
    /\ FallbackStarted =>
          /\ Len(Gets) = Len(urls_to_try)
          /\ \A i \in 1..Len(Gets) : ~Gets[i].ok

\* the second of at least three candidates was accepted after the first was
\* rejected, and the run went on to parse its bytes
C13_Witness ==
    /\ Len(urls_to_try) >= 3
    /\ Len(Gets) = 2 /\ ~Gets[1].ok /\ Gets[2].ok
    /\ pc = "find"

\* every candidate was rejected and the page fallback was entered
C13_WitnessFallback ==
    /\ FallbackStarted /\ Len(Gets) = Len(urls_to_try) /\ Len(Gets) >= 3


\* the shared link of the run
SharedUrl == config[1].sharepoint_shared_url[1]

QuerySeparator(url) == IF HasSubstring(url, <<"?">>) THEN <<"&">> ELSE <<"?">>

\* the candidates in the order download_excel_file generates them
Generated(u) ==
    << u,
       convert_sharepoint_url_to_direct_download(u),
       (IF HasSubstring(u, <<"?">>) THEN split(u, "?")[1] ELSE u) \o QDownload,
       u \o QuerySeparator(u) \o DownloadParam >>

\* the positions of a list that hold a URL for the first time
FirstOccurrences(g) ==
    {i \in 1..Len(g) : \A j \in 1..(i - 1) : g[j] # g[i]}

\* the view-mode variant: /:x:/ swapped for /:b:/ and download=1 appended,
\* where not there already, behind ? or &
ViewVariant(u) ==
    LET swapped == replace(u, ViewMarker, BinaryMarker)
    IN  IF HasSubstring(swapped, DownloadParam) THEN swapped
        ELSE swapped \o QuerySeparator(swapped) \o DownloadParam

\* download_excel_file has just built its candidate list
ListBuilt == pc = "download" /\ attempt = 1 /\ response = <<>>

CandidatesWellFormed ==
    LET g      == Generated(SharedUrl)
        firsts == FirstOccurrences(g)
    IN  /\ \A i, j \in 1..Len(urls_to_try) : i # j => urls_to_try[i] # urls_to_try[j]
        /\ Len(urls_to_try) = Cardinality(firsts)
        /\ \A k \in 1..Len(urls_to_try) :
              urls_to_try[k] =
                 g[CHOOSE i \in firsts : Cardinality({j \in firsts : j < i}) = k - 1]
        /\ SharedUrl \in Range(urls_to_try)

\* C14 as stated: the candidate list has no URL twice, keeps the order of
\* generation, contains the original URL, and for every URL with the view
\* marker /:x:/ contains the /:b:/ variant with download=1.
C14_CandidateList ==
    ListBuilt =>
        /\ CandidatesWellFormed
        /\ HasSubstring(SharedUrl, ViewMarker) => ViewVariant(SharedUrl) \in Range(urls_to_try)

\* C14 as amended: the same, the /:b:/ variant being required only for a URL
\* that contains "sharepoint.com" besides the view marker.
C14_CandidateListSharepoint ==
    ListBuilt =>
        /\ CandidatesWellFormed
        /\ (HasSubstring(SharedUrl, ViewMarker) /\ HasSubstring(SharedUrl, SharepointCom))
              => ViewVariant(SharedUrl) \in Range(urls_to_try)

\* the list of a sharepoint.com view link without a query string: a
\* generated duplicate was removed and the /:b:/ variant follows the original
C14_Witness ==
    /\ ListBuilt
    /\ SharedUrl = UrlViewBare
    /\ Len(urls_to_try) < Len(Generated(SharedUrl))
    /\ urls_to_try[1] = SharedUrl
    /\ urls_to_try[2] = ViewVariant(SharedUrl)


CountEvents(kind) == Cardinality({i \in 1..Len(net) : net[i].ev = kind})

\* C15: a run opens at most one SMTP session and attempts at most one send;
\* a failed SMTP call (connect, STARTTLS, login, send, quit) is the last
\* network call of the run, and the run ends unsuccessfully, with exit code 1.
C15_FireAndOnce ==
    /\ CountEvents("smtp_connect") <= 1
    /\ CountEvents("smtp_send_message") <= 1
    /\ \A i \in 1..Len(net) :
          (net[i].ev \in SmtpKinds /\ ~net[i].ok) =>
              /\ i = Len(net)
              /\ success = <<FALSE>>
              /\ pc \in {"exit", "done"}
              /\ (pc = "done" => exit_code = <<1>>)

\* a run whose SMTP login failed: the session was opened once, nothing was
\* sent, and the process exited with 1
C15_Witness ==
    /\ pc = "done" /\ exit_code = <<1>>
    /\ net # <<>> /\ LastEvent.ev = "smtp_login" /\ ~LastEvent.ok
    /\ CountEvents("smtp_connect") = 1
    /\ CountEvents("smtp_send_message") = 0


\* C16: between any two consecutive requests of candidate URLs the run
\* sleeps, whatever made the earlier response fail (status, HTML, content
\* that does not look like a spreadsheet, request exception).
C16_DelayBetweenAttempts ==
    \A i, j \in 1..Len(net) :
        (i < j /\ net[i].ev = "get" /\ net[j].ev = "get") =>
            \E k \in (i + 1)..(j - 1) : net[k].ev = "sleep"


ExtractedOnce ==
    \A i, j \in 1..Len(net) :
        (i # j /\ net[i].ev = "get_extracted" /\ net[j].ev = "get_extracted")
            => net[i].url # net[j].url

\* C17: whenever the page fallback holds the response of an extracted URL,
\* its next step returns the body as the file if and only if the rule for
\* direct candidates accepts the response (200, not HTML by content-type or
\* leading marker, spreadsheet type or signature, more than 1000 bytes); and
\* no extracted URL is requested twice.
C17_SameAcceptanceRule ==
    /\ [][(pc = "extract" /\ response # <<>>) =>
            ((pc' = "parse" /\ excel_file' = <<response[1].content>>)
                <=> SpreadsheetBytes(response[1]))]_vars
    /\ []ExtractedOnce


RunStarted == urls_to_try # <<>>

\* C18: once run_reminder_check has been called no exception leaves it,
\* whatever fails in a stage (a request that raises, a body no engine reads,
\* a missing column, a selection, an SMTP call that raises): it returns True
\* or False.
C18_NoFaultEscapesRun ==
    RunStarted =>
        /\ ~raised
        /\ (pc \in {"exit", "done"}) => success \in {<<TRUE>>, <<FALSE>>}

\* a run in which the first candidate's request raised, a later one gave a
\* workbook with a due cheque, and the SMTP login raised: False is returned
C18_Witness ==
    /\ pc = "done" /\ RunStarted
    /\ net[1].ev = "get" /\ ~net[1].ok
    /\ LastEvent.ev = "smtp_login" /\ ~LastEvent.ok
    /\ success = <<FALSE>> /\ exit_code = <<1>>


\* every resolved column carries its field's canonical name after the rename
AvailableUnderCanonicalNames ==
    \A k \in 1..Len(required_columns) :
        \E i \in 1..Len(SheetColumns) :
            /\ SheetColumns[i] = mapping[1][k]
            /\ ParsedColumns[i] = required_columns[k]

\* C19: whenever both fields were resolved, the rename leaves the resolved
\* columns under the canonical names and the parse goes on to the filter: its
\* result is a frame, not None.
C19_RenameReachesFilter ==
    (Parsed /\ mapping # <<>>) =>
        /\ AvailableUnderCanonicalNames
        /\ df # <<>>

\* C20: whenever both fields were resolved, they were resolved to two
\* different columns.
C20_DistinctColumns ==
    (Parsed /\ mapping # <<>>) => mapping[1][1] # mapping[1][2]


\* the position of an SMTP call in connect, STARTTLS, login, send, quit
StepIndex(kind) == CHOOSE k \in 1..Len(smtp_steps) : smtp_steps[k] = kind

\* the SMTP calls of the run occur in the order of smtp_steps
SmtpInOrder ==
    \A i, j \in 1..Len(net) :
        (i < j /\ net[i].ev \in SmtpKinds /\ net[j].ev \in SmtpKinds)
            => StepIndex(net[i].ev) < StepIndex(net[j].ev)

\* send_email_reminder has returned
SendReturned == pc \in {"exit", "done"}

\* every session that smtplib.SMTP(...) opened has had quit() called on it
SessionsClosed ==
    \A i \in 1..Len(net) :
        (net[i].ev = "smtp_connect" /\ net[i].ok) =>
            \E j \in (i + 1)..Len(net) : net[j].ev = "smtp_quit"

\* C21: the SMTP calls occur only in the order connect, STARTTLS, login,
\* send, quit, and once send_email_reminder has returned, on a failure path
\* as on the success path, every session that was opened has been closed by
\* quit.
C21_OrderedAndClosed ==
    /\ SmtpInOrder
    /\ SendReturned => SessionsClosed

====
